---- MODULE Spec2Model ----
(***************************************************************************)
(* Story-to-video pipeline (src/pipeline.py): the stage orchestrator, the  *)
(* narration synthesizer with its chunker and retry loop, the audio mixer, *)
(* the thumbnail provisioner and the video composer, over a directory      *)
(* based artifact store.                                                   *)
(*                                                                         *)
(* Files are records; [kind |-> "none"] is an absent path.  External       *)
(* collaborators (speech synthesis, image generation, ffmpeg, ffprobe)     *)
(* are inputs of the actions: each call either succeeds or raises, and an  *)
(* ffmpeg run that raises may or may not have left a file at the output    *)
(* path it was given.  Local file operations (rename, unlink, copy, mkdir) *)
(* are taken to succeed.                                                   *)
(***************************************************************************)
EXTENDS Integers, Sequences, FiniteSets, TLC

\* ------------------------------------------------------------------ bounds

NumStories == 2
MaxRuns == 2
MaxParas == 3
MaxDur == 6
MaxText == 5

\* --------------------------------------------------------- program constants

max_chars == 4000
MaxAttempts == 3

\* ------------------------------------------------------------------- texts

\* A paragraph of the cleaned text: `lead` whitespace characters, `body`
\* characters starting and ending with a non-whitespace one, `trail`
\* whitespace characters.  body = 0 is a whitespace-only (or empty) paragraph.
Para(lead, body, trail) == [lead |-> lead, body |-> body, trail |-> trail]

ParaLen(p) == p.lead + p.body + p.trail

\* len(current): current is the concatenation of paragraph + "\n\n".
RECURSIVE CurrentLen(_)
CurrentLen(cur) ==
    IF cur = <<>> THEN 0
    ELSE ParaLen(Head(cur)) + 2 + CurrentLen(Tail(cur))

\* Whitespace at the start of current (Len(cur) paragraphs, each followed
\* by "\n\n"); the whole length when current is whitespace only.
RECURSIVE LeadingWs(_)
LeadingWs(cur) ==
    IF cur = <<>> THEN 0
    ELSE IF Head(cur).body > 0 THEN Head(cur).lead
    ELSE ParaLen(Head(cur)) + 2 + LeadingWs(Tail(cur))

RECURSIVE TrailingWs(_)
TrailingWs(cur) ==
    IF cur = <<>> THEN 0
    ELSE LET last == cur[Len(cur)]
         IN  IF last.body > 0 THEN last.trail + 2
             ELSE ParaLen(last) + 2 + TrailingWs(SubSeq(cur, 1, Len(cur) - 1))

\* len(current.strip())
StrippedLen(cur) ==
    IF \A i \in 1..Len(cur) : cur[i].body = 0 THEN 0
    ELSE CurrentLen(cur) - LeadingWs(cur) - TrailingWs(cur)

\* chunks.append(current.strip()): the chunk keeps the paragraphs it was
\* built from and the length of the stripped string.
MakeChunk(cur) == [paras |-> cur, len |-> StrippedLen(cur)]

\* The test of the chunker's loop: the paragraph joins the current chunk.
FitsCurrent(cur, p) == CurrentLen(cur) + ParaLen(p) < max_chars

\* Mutant: the loop starts a new chunk without appending the current one.
RECURSIVE SplitFromNoFlush(_, _, _, _)
SplitFromNoFlush(paras, i, cur, acc) ==
    IF i > Len(paras)
    THEN IF cur # <<>> THEN Append(acc, MakeChunk(cur)) ELSE acc
    ELSE IF FitsCurrent(cur, paras[i])
         THEN SplitFromNoFlush(paras, i + 1, Append(cur, paras[i]), acc)
         ELSE SplitFromNoFlush(paras, i + 1, <<paras[i]>>, acc)

\* The chunker's loop over text.split("\n\n"), from paragraph i on.
RECURSIVE SplitFrom(_, _, _, _)
SplitFrom(paras, i, cur, acc) ==
    IF i > Len(paras)
    THEN IF cur # <<>> THEN Append(acc, MakeChunk(cur)) ELSE acc
    ELSE IF FitsCurrent(cur, paras[i])
         THEN SplitFrom(paras, i + 1, Append(cur, paras[i]), acc)
         ELSE SplitFrom(paras, i + 1, <<paras[i]>>,
                        IF cur # <<>> THEN Append(acc, MakeChunk(cur)) ELSE acc)

SplitChunks(paras) == SplitFrom(paras, 1, <<>>, <<>>)

\* The paragraph sequences clean_story_text can hand to the chunker: the
\* text is stripped, so it is one empty paragraph, or its first paragraph
\* starts and its last paragraph ends with a non-whitespace character; runs
\* of three newlines are collapsed, so no inner paragraph is empty.
CleanText(t) ==
    /\ Len(t) >= 1
    /\ \/ t = <<Para(0, 0, 0)>>
       \/ /\ t[1].lead = 0 /\ t[1].body > 0
          /\ t[Len(t)].trail = 0 /\ t[Len(t)].body > 0
          /\ \A i \in 1..Len(t) : ParaLen(t[i]) > 0

\* Paragraphs the chunker is exercised on.
ParaChoices ==
    { Para(0, 0, 0), Para(1, 0, 0), Para(0, 1, 0), Para(0, 1996, 0),
      Para(0, 1997, 0), Para(2, 3990, 3), Para(0, 3997, 0),
      Para(0, 3999, 0), Para(0, 4000, 0), Para(0, 4500, 0) }

SeqsUpTo(S, n) == UNION { [1..k -> S] : k \in 1..n }

\* len(text) of a cleaned text: its paragraphs joined by "\n\n".
TextLen(t) == IF t = <<>> THEN 0 ELSE CurrentLen(t) - 2

\* Long scripts: one paragraph, three, four and nine paragraphs.
LongTexts ==
    { <<Para(0, 9000, 0)>>,
      <<Para(0, 2998, 0), Para(0, 2998, 0), Para(0, 3000, 0)>>,
      <<Para(0, 2248, 0), Para(0, 2248, 0), Para(0, 2249, 0), Para(0, 2249, 0)>>,
      [k \in 1..9 |-> IF k = 9 THEN Para(0, 1000, 0) ELSE Para(0, 998, 0)] }

ChunkInputs ==
    { t \in SeqsUpTo(ParaChoices, MaxParas) : CleanText(t) } \cup LongTexts

\* The paragraphs of current.strip(): blank paragraphs at either end are
\* gone, as are the whitespace before the first and after the last
\* non-whitespace character; a string of whitespace is the empty string.
StripParas(cur) ==
    LET full == {i \in 1..Len(cur) : cur[i].body > 0} IN
    IF full = {} THEN <<Para(0, 0, 0)>>
    ELSE LET a == CHOOSE i \in full : \A j \in full : i <= j
             b == CHOOSE i \in full : \A j \in full : i >= j
         IN  [k \in 1..(b - a + 1) |->
                Para(IF k = 1 THEN 0 ELSE cur[a + k - 1].lead,
                     cur[a + k - 1].body,
                     IF a + k - 1 = b THEN 0 ELSE cur[a + k - 1].trail)]

\* ------------------------------------------------------------------- files

Stories == 1..NumStories

Stages == {"narration", "mix", "thumbnail", "video"}

NoFile == [kind |-> "none"]

\* A file some failed ffmpeg run left at its output path.
PartialFile == [kind |-> "partial"]

\* The file of no bytes a failed ffmpeg run left at its output path: ffmpeg
\* had opened the output and failed before it wrote anything.
EmptyFile == [kind |-> "empty"]

\* Path.exists()
Exists(f) == f.kind # "none"

\* What is at an output path after the ffmpeg run given it raised.
Leftover(outcome, old) ==
    CASE outcome = "partial" -> PartialFile
      [] outcome = "empty" -> EmptyFile
      [] OTHER -> old

\* get_audio_duration raises for a file of no bytes: ffprobe exits
\* non-zero, and check=True raises.
ProbeFails(f) == f.kind = "empty"

NoScript == <<>>

\* The scripts of the batch runs: no script file, a short script (one
\* chunk), a long script (two chunks).
ShortScript == <<Para(0, 1200, 0)>>

LongScript == <<Para(0, 3000, 0), Para(0, 2500, 0)>>

ScriptChoices == {NoScript, ShortScript, LongScript}

\* The stories/ directories tried: the three scripts dealt to the stories
\* in turn, from each starting point.
ScriptLayouts ==
    { [s \in Stories |-> <<LongScript, ShortScript, NoScript>>[((s + k) % 3) + 1]] :
        k \in 0..2 }

\* The largest number of chunk files one story puts into temp/.
ChunkSlots ==
    CHOOSE n \in 1..MaxParas :
        /\ \A t \in ScriptChoices : Len(SplitChunks(t)) <= n
        /\ \E t \in ScriptChoices : Len(SplitChunks(t)) = n

RECURSIVE SortedSeq(_)
SortedSeq(S) ==
    IF S = {} THEN <<>>
    ELSE LET m == CHOOSE x \in S : \A y \in S : x <= y
         IN  <<m>> \o SortedSeq(S \ {m})

VARIABLES
    script,      \* stories/<s>.md as cleaned paragraphs, NoScript when absent
    music,       \* background/background.m4a exists
    apikey,      \* OPENAI_API_KEY is set
    tools,       \* ffmpeg and ffprobe are installed
    narrations,  \* narrations/<s>.mp3
    mixed,       \* mixed/<s>.mp3
    images,      \* images/<s>.png
    videos,      \* videos/<s>.mp4
    chunkfile,   \* temp/<s>_chunk<i>.mp3
    manifest,    \* temp/<s>_concat.txt
    tempdir,     \* temp/ exists
    run,         \* invocations of main so far
    mode,        \* sys.argv[1]: "step1", "step2", "step3", "full" or "status"
    stories,     \* the batch, in order
    pc,          \* where main is
    idx,         \* position of the batch loop in stories
    ok,          \* the running stage's ok counter
    fail,        \* the running stage's fail counter
    chunks,      \* generate_narration: chunks
    ci,          \* generate_narration: the chunk being synthesized (from 1)
    attempt,     \* generate_narration: attempt
    chunk_files, \* generate_narration: chunk_files
    status,      \* per (stage, story) of this run: Pending, Running, Done, Skipped, Failed
    ops,         \* the external operations the last step invoked, in order
    calls,       \* per chunk of the last generate_narration: synthesis submissions
    summary,     \* per stage: the counts its summary line printed
    opfailed,    \* an external operation raised during this run
    everfailed,  \* a (story, stage) ended Failed in some run
    exitcode,    \* how the last run ended: 0 returned, 1 sys.exit(1)
    reported,    \* the table show_status printed in this run, if it ran
    ctext,       \* chunker harness: the cleaned text
    cout,        \* chunker harness: the chunks produced
    dur,         \* duration harness: the durations of one story's media
    cleaning     \* cleaning harness: a raw script and its cleaned text

envvars == <<script, music, apikey, tools>>

artifacts == <<narrations, mixed, images, videos>>

scratch == <<chunkfile, manifest>>

loopvars == <<idx, ok, fail>>

narrvars == <<chunks, ci, attempt, chunk_files, calls>>

obsvars == <<status, summary, opfailed, everfailed>>

harness == <<ctext, cout, dur, cleaning>>

vars == <<script, music, apikey, tools, narrations, mixed, images, videos, chunkfile,
          manifest, tempdir, run, mode, stories, pc, idx, ok, fail, chunks,
          ci, attempt, chunk_files, status, ops, calls, summary, opfailed,
          everfailed, exitcode, reported, ctext, cout, dur, cleaning>>

NoSummary == [printed |-> FALSE, ok |-> 0, fail |-> 0]

NoOps == [stage |-> "none", story |-> 0, names |-> <<>>]

FreshStatus == [st \in Stages |-> [s \in Stories |-> "Pending"]]

FreshSummary == [st \in Stages |-> NoSummary]

\* Mutant: the summary line does not report the failures.
SummaryLineOkOnly(o, f) == [printed |-> TRUE, ok |-> o, fail |-> 0]

\* print(f"Step N done: {ok} ok, {fail} failed")
SummaryLine(o, f) == [printed |-> TRUE, ok |-> o, fail |-> f]

NoFiles == [s \in Stories |-> NoFile]

\* show_status has not run.
NoTable == [emitted |-> FALSE]

\* The duration harness at rest.
NoDur == [pc |-> "off"]

\* The cleaning harness at rest.
NoCleaning == [pc |-> "off"]

\* The program at rest, before its first invocation, with nothing produced.
AtRest ==
    /\ narrations = NoFiles /\ mixed = NoFiles /\ videos = NoFiles
    /\ chunkfile = [s \in Stories |-> [i \in 1..ChunkSlots |-> NoFile]]
    /\ manifest = NoFiles
    /\ tempdir = FALSE
    /\ run = 0 /\ mode = "none" /\ stories = <<>> /\ pc = "idle"
    /\ idx = 0 /\ ok = 0 /\ fail = 0
    /\ chunks = <<>> /\ ci = 0 /\ attempt = 0 /\ chunk_files = <<>>
    /\ calls = <<>>
    /\ status = FreshStatus /\ ops = NoOps
    /\ summary = FreshSummary
    /\ opfailed = FALSE /\ everfailed = FALSE
    /\ exitcode = 0 /\ reported = NoTable

Init ==
    /\ script \in ScriptLayouts
    /\ music \in BOOLEAN
    /\ apikey \in BOOLEAN
    /\ tools \in BOOLEAN
    /\ images = NoFiles
    /\ AtRest
    /\ ctext = <<>> /\ cout = <<>>
    /\ dur = NoDur
    /\ cleaning = NoCleaning

\* -------------------------------------------------------------------- main

fixed == <<script, music, apikey, tools, ctext, cout, dur, cleaning>>

Mark(st, s, v) == [status EXCEPT ![st][s] = v]

Ops(st, s, names) == [stage |-> st, story |-> s, names |-> names]

\* stories: the story named on the command line, or every script, sorted.
Batch(scope) ==
    IF scope = 0
    THEN SortedSeq({s \in Stories : script[s] # NoScript})
    ELSE <<scope>>

\* The dispatch on sys.argv[1]; --status returns from main at once.
FirstPc(m) ==
    CASE m = "step1" -> "step1_begin"
      [] m = "step2" -> "step2_begin"
      [] m = "step3" -> "step3_begin"
      [] m = "status" -> "idle"
      [] OTHER -> "step1_begin"

\* Mutant: the thumbnails are made before the mix.
AfterStageSwapped(m, st) ==
    IF m # "full" THEN "exit"
    ELSE CASE st = "narration" -> "thumbs_begin"
           [] st = "thumbnail" -> "step2_begin"
           [] st = "mix" -> "step3_begin"
           [] OTHER -> "exit"

\* What main runs after a stage: the next call of the full pipeline, or the
\* end of main.
AfterStage(m, st) ==
    IF m # "full" THEN "exit"
    ELSE CASE st = "narration" -> "step2_begin"
           [] st = "mix" -> "thumbs_begin"
           [] st = "thumbnail" -> "step3_begin"
           [] OTHER -> "exit"

\* Mutant: the loops have no try / except.
CatchesNothing(st) == FALSE

\* The batch loops wrap each story in try / except Exception.
CatchesErrors(st) == TRUE

\* show_status: a row for every script of stories/, sorted, with the
\* presence of its image, narration, mixed audio and video.
StatusTable ==
    [emitted |-> TRUE,
     rows |-> [s \in {x \in Stories : script[x] # NoScript} |->
                [image |-> Exists(images[s]),
                 narration |-> Exists(narrations[s]),
                 mixed |-> Exists(mixed[s]),
                 video |-> Exists(videos[s])]]]

\* Mutant: main shows the status after every command.
ShowsStatusAlways(m) == TRUE

\* main calls show_status at the end of the full pipeline only.
ShowsStatus(m) == m = "full"

\* main up to the dispatch: the directories are made and the batch is set;
\* --status prints the table and returns.
StartRun(m, scope) ==
    /\ pc = "idle"
    /\ run < MaxRuns
    /\ run' = run + 1
    /\ mode' = m
    /\ stories' = IF m = "status" THEN <<>> ELSE Batch(scope)
    /\ tempdir' = TRUE
    /\ pc' = FirstPc(m)
    /\ idx' = 0 /\ ok' = 0 /\ fail' = 0
    /\ chunks' = <<>> /\ ci' = 0 /\ attempt' = 0 /\ chunk_files' = <<>>
    /\ calls' = <<>>
    /\ status' = FreshStatus /\ ops' = NoOps
    /\ summary' = FreshSummary
    /\ opfailed' = FALSE /\ exitcode' = 0 /\ reported' = IF m = "status" THEN StatusTable ELSE NoTable
    /\ UNCHANGED <<fixed, artifacts, scratch, everfailed>>

\* Mutant: main never removes temp/.
TempNeverEmpty == FALSE

\* not any(TEMP_DIR.iterdir())
TempEmpty ==
    /\ \A s \in Stories : ~Exists(manifest[s])
    /\ \A s \in Stories : \A i \in 1..ChunkSlots : ~Exists(chunkfile[s][i])

\* The end of main: the status table of the full pipeline, and temp/ removed
\* when it is empty.
Exit ==
    /\ pc = "exit"
    /\ reported' = IF ShowsStatus(mode) THEN StatusTable ELSE NoTable
    /\ tempdir' = (tempdir /\ ~TempEmpty)
    /\ pc' = "idle"
    /\ ops' = NoOps
    /\ UNCHANGED <<fixed, artifacts, scratch, run, mode, stories, loopvars,
                   narrvars, obsvars, exitcode>>

\* ------------------------------------------------------- step 1: narration

\* Mutant: a chunk file found in temp/ is kept as it is.
TtsFileKept(s, i) ==
    IF Exists(chunkfile[s][i]) THEN chunkfile[s][i]
    ELSE [kind |-> "tts", story |-> s, idx |-> i, run |-> run]

\* One speech-synthesis file of this run.
TtsFile(s, i) == [kind |-> "tts", story |-> s, idx |-> i, run |-> run]

\* ffmpeg -f concat -c copy over the manifest's files, in the manifest's order.
ConcatFile(s, files) ==
    [kind |-> "concat", parts |-> [k \in 1..Len(files) |-> chunkfile[s][files[k]]]]

\* step1_narrations up to its loop.
Step1Begin ==
    /\ pc = "step1_begin"
    /\ IF apikey
       THEN /\ pc' = "step1" /\ idx' = 1 /\ ok' = 0 /\ fail' = 0
            /\ tempdir' = TRUE
            /\ UNCHANGED exitcode
       ELSE /\ pc' = "idle" /\ exitcode' = 1
            /\ UNCHANGED <<idx, ok, fail, tempdir>>
    /\ ops' = NoOps
    /\ UNCHANGED <<fixed, artifacts, scratch, run, mode, stories, narrvars,
                   obsvars, reported>>

\* The loop's test of the story's output.
Step1ShouldSkip(s) == Exists(narrations[s])

Step1Skip ==
    /\ pc = "step1" /\ idx <= Len(stories)
    /\ LET s == stories[idx] IN
        /\ Step1ShouldSkip(s)
        /\ status' = Mark("narration", s, "Skipped")
        /\ ok' = ok + 1
        /\ idx' = idx + 1
    /\ ops' = NoOps
    /\ UNCHANGED <<fixed, artifacts, scratch, tempdir, run, mode, stories, pc,
                   fail, narrvars, summary, opfailed, everfailed,
                   exitcode, reported>>

\* Mutant: the loop counts a story ok whatever its function returned.
ReturnedNoneAsOk(st, s) ==
    /\ status' = Mark(st, s, "Done")
    /\ ok' = ok + 1 /\ fail' = fail
    /\ idx' = idx + 1

\* The stage's function returned None: `else: fail += 1`, and the loop
\* goes on to the next story.
ReturnedNone(st, s) ==
    /\ status' = Mark(st, s, "Failed")
    /\ fail' = fail + 1 /\ ok' = ok
    /\ idx' = idx + 1

\* generate_narration returns None: no script.
Step1NoStory ==
    /\ pc = "step1" /\ idx <= Len(stories)
    /\ LET s == stories[idx] IN
        /\ ~Step1ShouldSkip(s)
        /\ script[s] = NoScript
        /\ ReturnedNone("narration", s)
    /\ everfailed' = TRUE
    /\ ops' = NoOps
    /\ UNCHANGED <<fixed, artifacts, scratch, tempdir, run, mode, stories, pc,
                   narrvars, summary, opfailed, exitcode, reported>>

\* generate_narration up to its synthesis loop: the text is cleaned and cut.
Step1Generate ==
    /\ pc = "step1" /\ idx <= Len(stories)
    /\ LET s == stories[idx] IN
        /\ ~Step1ShouldSkip(s)
        /\ script[s] # NoScript
        /\ status' = Mark("narration", s, "Running")
        /\ chunks' = SplitChunks(script[s])
        /\ calls' = [i \in 1..Len(SplitChunks(script[s])) |-> 0]
    /\ ci' = 1 /\ attempt' = 0 /\ chunk_files' = <<>>
    /\ pc' = "synth"
    /\ ops' = NoOps
    /\ UNCHANGED <<fixed, artifacts, scratch, tempdir, run, mode, stories,
                   loopvars, summary, opfailed, everfailed, exitcode,
                   reported>>

\* Mutant: the last attempt is retried instead of raised.
AlwaysRetry(a) == a < MaxAttempts

\* except: `if attempt < 2` retries, else the error is raised again.
ShouldRetry(a) == a < MaxAttempts - 1

\* An error leaves generate_narration and reaches step1's loop.
NarrationRaised(s) ==
    /\ status' = Mark("narration", s, "Failed")
    /\ everfailed' = TRUE
    /\ chunks' = <<>> /\ ci' = 0 /\ attempt' = 0
    /\ IF CatchesErrors("narration")
       THEN /\ fail' = fail + 1 /\ idx' = idx + 1 /\ pc' = "step1"
            /\ UNCHANGED exitcode
       ELSE /\ pc' = "idle" /\ exitcode' = 1
            /\ UNCHANGED <<fail, idx>>

\* Mutant: a narration that was made is not counted.
NarrationReturnedUncounted(s) ==
    /\ status' = Mark("narration", s, "Done")
    /\ chunks' = <<>> /\ ci' = 0 /\ attempt' = 0
    /\ ok' = ok /\ idx' = idx + 1 /\ pc' = "step1"

\* generate_narration returns the output path.
NarrationReturned(s) ==
    /\ status' = Mark("narration", s, "Done")
    /\ chunks' = <<>> /\ ci' = 0 /\ attempt' = 0
    /\ ok' = ok + 1 /\ idx' = idx + 1 /\ pc' = "step1"

\* One pass of the attempt loop for chunk ci: the chunk is submitted.
SynthAttempt(success) ==
    /\ pc = "synth"
    /\ LET s == stories[idx] IN
        /\ calls' = [calls EXCEPT ![ci] = @ + 1]
        /\ ops' = Ops("narration", s, <<"tts">>)
        /\ IF success
           THEN /\ chunkfile' = [chunkfile EXCEPT ![s][ci] = TtsFile(s, ci)]
                /\ chunk_files' = Append(chunk_files, ci)
                /\ attempt' = 0
                /\ IF ci < Len(chunks)
                   THEN ci' = ci + 1 /\ pc' = "synth"
                   ELSE ci' = ci /\ pc' = "join"
                /\ UNCHANGED <<status, everfailed, opfailed, loopvars, chunks,
                               exitcode>>
           ELSE /\ opfailed' = TRUE
                /\ UNCHANGED <<chunkfile, chunk_files>>
                /\ IF ShouldRetry(attempt)
                   THEN /\ IF attempt + 1 < MaxAttempts
                           THEN attempt' = attempt + 1 /\ ci' = ci /\ pc' = "synth"
                           ELSE /\ attempt' = 0
                                /\ IF ci < Len(chunks)
                                   THEN ci' = ci + 1 /\ pc' = "synth"
                                   ELSE ci' = ci /\ pc' = "join"
                        /\ UNCHANGED <<status, everfailed, loopvars, chunks,
                                       exitcode>>
                   ELSE /\ NarrationRaised(s)
                        /\ UNCHANGED ok
    /\ UNCHANGED <<fixed, artifacts, manifest, tempdir, run, mode, stories,
                   summary, reported>>

\* subprocess.run of ffmpeg or ffprobe: FileNotFoundError when the tool is
\* not installed, and no other outcome then.
ToolRuns(outcome) == (outcome = "missing") <=> ~tools

\* The outcomes of ffprobe and then ffmpeg over the audio file `input`.
ProbeRuns(outcome, input) ==
    /\ ToolRuns(outcome)
    /\ ProbeFails(input) => outcome \in {"probe_fail", "missing"}

\* The tools a probe-then-ffmpeg step invoked.
ProbeOps(outcome) ==
    IF outcome \in {"probe_fail", "missing"}
    THEN <<"probe">> ELSE <<"probe", "ffmpeg">>

\* Mutant: the chunk files are always concatenated.
NeverSingle(files) == FALSE

\* `if len(chunk_files) == 1`
SingleChunk(files) == Len(files) = 1

\* The one chunk file is renamed to the artifact path.
JoinRename ==
    /\ pc = "join"
    /\ SingleChunk(chunk_files)
    /\ LET s == stories[idx] IN
        /\ narrations' = [narrations EXCEPT ![s] = chunkfile[s][chunk_files[1]]]
        /\ chunkfile' = [chunkfile EXCEPT ![s][chunk_files[1]] = NoFile]
        /\ NarrationReturned(s)
    /\ ops' = NoOps
    /\ UNCHANGED <<fixed, mixed, images, videos, manifest, tempdir, run, mode,
                   stories, fail, chunk_files, calls, summary,
                   opfailed, everfailed, exitcode, reported>>

\* The manifest is written and ffmpeg concatenates; on success the manifest
\* and the chunk files are unlinked.
JoinConcat(outcome) ==
    /\ pc = "join"
    /\ ~SingleChunk(chunk_files)
    /\ ToolRuns(outcome)
    /\ LET s == stories[idx] IN
        /\ ops' = Ops("narration", s, <<"concat">>)
        /\ IF outcome = "ok"
           THEN /\ narrations' = [narrations EXCEPT ![s] = ConcatFile(s, chunk_files)]
                /\ manifest' = [manifest EXCEPT ![s] = NoFile]
                /\ chunkfile' = [chunkfile EXCEPT ![s] =
                        [i \in 1..ChunkSlots |->
                            IF \E k \in 1..Len(chunk_files) : chunk_files[k] = i
                            THEN NoFile ELSE @[i]]]
                /\ NarrationReturned(s)
                /\ UNCHANGED <<fail, opfailed, everfailed, exitcode>>
           ELSE /\ narrations' = [narrations EXCEPT ![s] = Leftover(outcome, @)]
                /\ manifest' = [manifest EXCEPT ![s] =
                        [kind |-> "list", files |-> chunk_files]]
                /\ opfailed' = TRUE
                /\ NarrationRaised(s)
                /\ UNCHANGED <<chunkfile, ok>>
    /\ UNCHANGED <<fixed, mixed, images, videos, tempdir, run, mode, stories,
                   chunk_files, calls, summary, reported>>

\* The loop is over: the summary line.
Step1End ==
    /\ pc = "step1" /\ idx > Len(stories)
    /\ summary' = [summary EXCEPT !["narration"] = SummaryLine(ok, fail)]
    /\ pc' = AfterStage(mode, "narration")
    /\ idx' = 0 /\ ok' = 0 /\ fail' = 0
    /\ chunk_files' = <<>> /\ calls' = <<>>
    /\ ops' = NoOps
    /\ UNCHANGED <<fixed, artifacts, scratch, tempdir, run, mode, stories,
                   chunks, ci, attempt, status, opfailed,
                   everfailed, exitcode, reported>>

\* ------------------------------------------------------------- step 2: mix

MixFile(s) == [kind |-> "mix", narration |-> narrations[s]]

Step2Begin ==
    /\ pc = "step2_begin"
    /\ pc' = "step2" /\ idx' = 1 /\ ok' = 0 /\ fail' = 0
    /\ ops' = NoOps
    /\ UNCHANGED <<fixed, artifacts, scratch, tempdir, run, mode, stories,
                   narrvars, obsvars, exitcode, reported>>

\* Mutant: the loop does not test the output.
Step2NeverSkip(s) == FALSE

\* Mutant: the loop skips a story only when its input is there as well.
Step2SkipWithInput(s) == Exists(mixed[s]) /\ Exists(narrations[s])

Step2ShouldSkip(s) == Exists(mixed[s])

\* Mutant: mix_audio tests the output path instead of the narration.
MixInputWrongPath(s) == Exists(mixed[s])

\* mix_audio: `if not narration.exists()` is false.
MixInputPresent(s) == Exists(narrations[s])

Step2Skip ==
    /\ pc = "step2" /\ idx <= Len(stories)
    /\ LET s == stories[idx] IN
        /\ Step2ShouldSkip(s)
        /\ status' = Mark("mix", s, "Skipped")
        /\ ok' = ok + 1
        /\ idx' = idx + 1
    /\ ops' = NoOps
    /\ UNCHANGED <<fixed, artifacts, scratch, tempdir, run, mode, stories, pc,
                   fail, narrvars, summary, opfailed, everfailed,
                   exitcode, reported>>

\* mix_audio returns None: no narration.
Step2Missing ==
    /\ pc = "step2" /\ idx <= Len(stories)
    /\ LET s == stories[idx] IN
        /\ ~Step2ShouldSkip(s)
        /\ ~MixInputPresent(s)
        /\ ReturnedNone("mix", s)
    /\ everfailed' = TRUE
    /\ ops' = NoOps
    /\ UNCHANGED <<fixed, artifacts, scratch, tempdir, run, mode, stories, pc,
                   narrvars, summary, opfailed, exitcode, reported>>

\* Mutant: mix_audio does not test the music track.
MusicAssumed == TRUE

\* mix_audio: `if not BACKGROUND_MUSIC.exists()` is false.
MusicPresent == music

\* No background music: shutil.copy2(narration, output).
Step2Copy ==
    /\ pc = "step2" /\ idx <= Len(stories)
    /\ LET s == stories[idx] IN
        /\ ~Step2ShouldSkip(s)
        /\ MixInputPresent(s)
        /\ ~MusicPresent
        /\ ops' = Ops("mix", s, <<"copy">>)
        /\ mixed' = [mixed EXCEPT ![s] = narrations[s]]
        /\ status' = Mark("mix", s, "Done")
        /\ ok' = ok + 1
        /\ idx' = idx + 1
    /\ UNCHANGED <<fixed, narrations, images, videos, scratch, tempdir, run,
                   mode, stories, pc, fail, narrvars, summary, opfailed,
                   everfailed, exitcode, reported>>

\* An error leaves mix_audio or create_video and reaches the stage's loop.
StoryRaised(st, s) ==
    /\ status' = Mark(st, s, "Failed")
    /\ everfailed' = TRUE
    /\ opfailed' = TRUE
    /\ IF CatchesErrors(st)
       THEN /\ fail' = fail + 1 /\ idx' = idx + 1
            /\ UNCHANGED <<pc, exitcode>>
       ELSE /\ pc' = "idle" /\ exitcode' = 1
            /\ UNCHANGED <<fail, idx>>

\* ffprobe of the narration, then ffmpeg into the output path.
Step2Mix(outcome) ==
    /\ pc = "step2" /\ idx <= Len(stories)
    /\ LET s == stories[idx] IN
        /\ ~Step2ShouldSkip(s)
        /\ MixInputPresent(s)
        /\ MusicPresent
        /\ ProbeRuns(outcome, narrations[s])
        /\ ops' = Ops("mix", s, ProbeOps(outcome))
        /\ IF outcome = "ok"
           THEN /\ mixed' = [mixed EXCEPT ![s] = MixFile(s)]
                /\ status' = Mark("mix", s, "Done")
                /\ ok' = ok + 1
                /\ idx' = idx + 1
                /\ UNCHANGED <<pc, fail, opfailed, everfailed, exitcode>>
           ELSE /\ mixed' = [mixed EXCEPT ![s] = Leftover(outcome, @)]
                /\ StoryRaised("mix", s)
                /\ UNCHANGED ok
    /\ UNCHANGED <<fixed, narrations, images, videos, scratch, tempdir, run,
                   mode, stories, narrvars, summary, reported>>

Step2End ==
    /\ pc = "step2" /\ idx > Len(stories)
    /\ summary' = [summary EXCEPT !["mix"] = SummaryLine(ok, fail)]
    /\ pc' = AfterStage(mode, "mix")
    /\ idx' = 0 /\ ok' = 0 /\ fail' = 0
    /\ ops' = NoOps
    /\ UNCHANGED <<fixed, artifacts, scratch, tempdir, run, mode, stories,
                   narrvars, status, opfailed, everfailed,
                   exitcode, reported>>

\* ------------------------------------------------------ step 2.5: thumbnail

ImageFile(s) == [kind |-> "png", run |-> run]

ThumbsBegin ==
    /\ pc = "thumbs_begin"
    /\ IF apikey
       THEN pc' = "thumbs" /\ idx' = 1 /\ UNCHANGED exitcode
       ELSE pc' = "idle" /\ exitcode' = 1 /\ UNCHANGED idx
    /\ ops' = NoOps
    /\ UNCHANGED <<fixed, artifacts, scratch, tempdir, run, mode, stories, ok,
                   fail, narrvars, obsvars, reported>>

\* ensure_thumbnail: `if image_path.exists()`
ThumbShouldSkip(s) == Exists(images[s])

ThumbExists ==
    /\ pc = "thumbs" /\ idx <= Len(stories)
    /\ LET s == stories[idx] IN
        /\ ThumbShouldSkip(s)
        /\ status' = Mark("thumbnail", s, "Skipped")
        /\ idx' = idx + 1
    /\ ops' = NoOps
    /\ UNCHANGED <<fixed, artifacts, scratch, tempdir, run, mode, stories, pc,
                   ok, fail, narrvars, summary, opfailed, everfailed,
                   exitcode, reported>>

\* generate_image: the image is generated, fetched, resized and saved.
ThumbGenerate(success) ==
    /\ pc = "thumbs" /\ idx <= Len(stories)
    /\ LET s == stories[idx] IN
        /\ ~ThumbShouldSkip(s)
        /\ ops' = Ops("thumbnail", s, <<"image">>)
        /\ IF success
           THEN /\ images' = [images EXCEPT ![s] = ImageFile(s)]
                /\ status' = Mark("thumbnail", s, "Done")
                /\ idx' = idx + 1
                /\ UNCHANGED <<pc, opfailed, everfailed, exitcode>>
           ELSE /\ status' = Mark("thumbnail", s, "Failed")
                /\ everfailed' = TRUE
                /\ opfailed' = TRUE
                /\ UNCHANGED images
                /\ IF CatchesErrors("thumbnail")
                   THEN idx' = idx + 1 /\ UNCHANGED <<pc, exitcode>>
                   ELSE pc' = "idle" /\ exitcode' = 1 /\ UNCHANGED idx
    /\ UNCHANGED <<fixed, narrations, mixed, videos, scratch, tempdir, run,
                   mode, stories, ok, fail, narrvars, summary, reported>>

\* The loop is over; step_thumbnails prints no summary.
ThumbsEnd ==
    /\ pc = "thumbs" /\ idx > Len(stories)
    /\ pc' = AfterStage(mode, "thumbnail")
    /\ idx' = 0
    /\ ops' = NoOps
    /\ UNCHANGED <<fixed, artifacts, scratch, tempdir, run, mode, stories, ok,
                   fail, narrvars, obsvars, exitcode, reported>>

\* ----------------------------------------------------------- step 3: video

VideoFile(s) ==
    [kind |-> "mp4", image |-> images[s], audio |-> mixed[s]]

Step3Begin ==
    /\ pc = "step3_begin"
    /\ pc' = "step3" /\ idx' = 1 /\ ok' = 0 /\ fail' = 0
    /\ ops' = NoOps
    /\ UNCHANGED <<fixed, artifacts, scratch, tempdir, run, mode, stories,
                   narrvars, obsvars, exitcode, reported>>

\* Mutant: the loop does not test the output.
Step3NeverSkip(s) == FALSE

Step3ShouldSkip(s) == Exists(videos[s])

\* Mutant: create_video does not test the mixed audio.
VideoImageOnly(s) == Exists(images[s])

\* create_video: neither `if not image.exists()` nor `if not audio.exists()`.
VideoInputsPresent(s) == Exists(images[s]) /\ Exists(mixed[s])

Step3Skip ==
    /\ pc = "step3" /\ idx <= Len(stories)
    /\ LET s == stories[idx] IN
        /\ Step3ShouldSkip(s)
        /\ status' = Mark("video", s, "Skipped")
        /\ ok' = ok + 1
        /\ idx' = idx + 1
    /\ ops' = NoOps
    /\ UNCHANGED <<fixed, artifacts, scratch, tempdir, run, mode, stories, pc,
                   fail, narrvars, summary, opfailed, everfailed,
                   exitcode, reported>>

\* create_video returns None: no image, or no mixed audio.
Step3Missing ==
    /\ pc = "step3" /\ idx <= Len(stories)
    /\ LET s == stories[idx] IN
        /\ ~Step3ShouldSkip(s)
        /\ ~VideoInputsPresent(s)
        /\ ReturnedNone("video", s)
    /\ everfailed' = TRUE
    /\ ops' = NoOps
    /\ UNCHANGED <<fixed, artifacts, scratch, tempdir, run, mode, stories, pc,
                   narrvars, summary, opfailed, exitcode, reported>>

\* ffprobe of the mixed audio, then ffmpeg into the output path.
Step3Video(outcome) ==
    /\ pc = "step3" /\ idx <= Len(stories)
    /\ LET s == stories[idx] IN
        /\ ~Step3ShouldSkip(s)
        /\ VideoInputsPresent(s)
        /\ ProbeRuns(outcome, mixed[s])
        /\ ops' = Ops("video", s, ProbeOps(outcome))
        /\ IF outcome = "ok"
           THEN /\ videos' = [videos EXCEPT ![s] = VideoFile(s)]
                /\ status' = Mark("video", s, "Done")
                /\ ok' = ok + 1
                /\ idx' = idx + 1
                /\ UNCHANGED <<pc, fail, opfailed, everfailed, exitcode>>
           ELSE /\ videos' = [videos EXCEPT ![s] = Leftover(outcome, @)]
                /\ StoryRaised("video", s)
                /\ UNCHANGED ok
    /\ UNCHANGED <<fixed, narrations, mixed, images, scratch, tempdir, run,
                   mode, stories, narrvars, summary, reported>>

Step3End ==
    /\ pc = "step3" /\ idx > Len(stories)
    /\ summary' = [summary EXCEPT !["video"] = SummaryLine(ok, fail)]
    /\ pc' = AfterStage(mode, "video")
    /\ idx' = 0 /\ ok' = 0 /\ fail' = 0
    /\ ops' = NoOps
    /\ UNCHANGED <<fixed, artifacts, scratch, tempdir, run, mode, stories,
                   narrvars, status, opfailed, everfailed,
                   exitcode, reported>>

\* ----------------------------------------------------------- specification

Modes == {"step1", "step2", "step3", "full"}

\* The command lines tried: each mode over every script, the full
\* pipeline for the first story by name (with a long, a short or no
\* script, by the layout), and --status.
CommandLines == (Modes \X {0}) \cup {<<"full", 1>>, <<"status", 0>>}

ToolOutcomes == {"ok", "probe_fail", "fail", "partial", "empty", "missing"}

ConcatOutcomes == {"ok", "fail", "partial", "empty", "missing"}

\* Nothing reads a video: one kind of leftover stands for both.
VideoOutcomes == ToolOutcomes \ {"empty"}

Next ==
    \/ \E cmd \in CommandLines : StartRun(cmd[1], cmd[2])
    \/ Step1Begin
    \/ Step1Skip
    \/ Step1NoStory
    \/ Step1Generate
    \/ \E success \in BOOLEAN : SynthAttempt(success)
    \/ JoinRename
    \/ \E outcome \in ConcatOutcomes : JoinConcat(outcome)
    \/ Step1End
    \/ Step2Begin
    \/ Step2Skip
    \/ Step2Missing
    \/ Step2Copy
    \/ \E outcome \in ToolOutcomes : Step2Mix(outcome)
    \/ Step2End
    \/ ThumbsBegin
    \/ ThumbExists
    \/ \E success \in BOOLEAN : ThumbGenerate(success)
    \/ ThumbsEnd
    \/ Step3Begin
    \/ Step3Skip
    \/ Step3Missing
    \/ \E outcome \in VideoOutcomes : Step3Video(outcome)
    \/ Step3End
    \/ Exit

Spec == Init /\ [][Next]_vars

\* ------------------------------------------------ runs with a file removed

\* Between two runs the user removes the narration of a story whose video
\* has been made, nothing having failed so far.
DeleteNarration(s) ==
    /\ pc = "idle" /\ run >= 1 /\ run < MaxRuns
    /\ ~everfailed
    /\ Exists(narrations[s]) /\ Exists(mixed[s]) /\ Exists(videos[s])
    /\ narrations' = [narrations EXCEPT ![s] = NoFile]
    /\ ops' = NoOps
    /\ UNCHANGED <<fixed, mixed, images, videos, scratch, tempdir, run, mode,
                   stories, pc, loopvars, narrvars, obsvars, exitcode,
                   reported>>

\* The runs with the tools installed and the API key set.
RegenInit == Init /\ apikey /\ tools

RegenNext == Next \/ \E s \in Stories : DeleteNarration(s)

SpecRegen == RegenInit /\ [][RegenNext]_vars

\* --------------------------------------------------------- chunker harness

\* The chunker applied to every cleaned text of ChunkInputs.
ChunkInit ==
    /\ script = [s \in Stories |-> NoScript]
    /\ music = FALSE
    /\ apikey = FALSE
    /\ tools = FALSE
    /\ images = NoFiles
    /\ AtRest
    /\ ctext \in ChunkInputs
    /\ cout = <<>>
    /\ dur = NoDur
    /\ cleaning = NoCleaning

ChunkText ==
    /\ cout = <<>>
    /\ cout' = SplitChunks(ctext)
    /\ UNCHANGED <<script, music, apikey, tools, narrations, mixed, images,
                   videos, chunkfile, manifest, tempdir, run, mode, stories, pc, idx,
                   ok, fail, chunks, ci, attempt, chunk_files, status, ops,
                   calls, summary, opfailed, everfailed, exitcode, reported,
                   ctext, dur, cleaning>>

ChunkNext == ChunkText

SpecChunk == ChunkInit /\ [][ChunkNext]_vars

\* -------------------------------------------------------- duration harness

\* The length of a looped input: `-stream_loop -1` of the music, `-loop 1`
\* of the still image.
Unbounded == -1

Shorter(a, b) ==
    CASE a = Unbounded -> b
      [] b = Unbounded -> a
      [] OTHER -> IF a <= b THEN a ELSE b

\* amix=inputs=2:duration=first: the mix ends with its first input.
AMixFirst(first, second) == first

\* -shortest: the output ends with its shortest input.
Shortest(a, b) == Shorter(a, b)

\* -t t: the output is cut at t.
Truncate(len, t) == Shorter(len, t)

\* Mutant: the mixer probes the music track.
MixCapMusic(d) == d.music

\* mix_audio: duration = get_audio_duration(narration)
MixCap(d) == d.narration

\* create_video: duration = get_audio_duration(audio), audio the mixed file.
VideoCap(d) == d.mixed

\* A narration of each duration beside a music track of each duration, or
\* none (0); durations in ticks of the probe's resolution.
DurInit ==
    /\ script = [s \in Stories |-> NoScript]
    /\ music = FALSE
    /\ apikey = FALSE
    /\ tools = TRUE
    /\ images = NoFiles
    /\ AtRest
    /\ ctext = <<>> /\ cout = <<>>
    /\ dur \in { [pc |-> "mix", narration |-> n, music |-> m] :
                    n \in 1..MaxDur, m \in 0..MaxDur }
    /\ cleaning = NoCleaning

durfixed == <<script, music, apikey, tools, narrations, mixed, images, videos,
              chunkfile, manifest, tempdir, run, mode, stories, pc, idx, ok,
              fail, chunks, ci, attempt, chunk_files, status, ops, calls,
              summary, opfailed, everfailed, exitcode, reported, ctext, cout,
              cleaning>>

\* mix_audio on the durations: the copy without music, else the probe and
\* the ffmpeg run over the narration and the looped music.
DurMix ==
    /\ dur.pc = "mix"
    /\ dur' = IF dur.music = 0
              THEN [pc |-> "video", narration |-> dur.narration,
                    music |-> dur.music, mixcap |-> Unbounded,
                    mixed |-> dur.narration]
              ELSE [pc |-> "video", narration |-> dur.narration,
                    music |-> dur.music, mixcap |-> MixCap(dur),
                    mixed |-> Truncate(AMixFirst(dur.narration, Unbounded),
                                       MixCap(dur))]
    /\ UNCHANGED durfixed

\* create_video on the durations: the probe of the mixed audio and the
\* ffmpeg run over the looped image and the mixed audio.
DurVideo ==
    /\ dur.pc = "video"
    /\ dur' = [pc |-> "done", narration |-> dur.narration,
               music |-> dur.music, mixcap |-> dur.mixcap,
               mixed |-> dur.mixed, videocap |-> VideoCap(dur),
               video |-> Truncate(Shortest(Unbounded, dur.mixed), VideoCap(dur))]
    /\ UNCHANGED durfixed

DurNext == DurMix \/ DurVideo

SpecDur == DurInit /\ [][DurNext]_vars

\* -------------------------------------------------------- cleaning harness

\* A script is a sequence of characters: "#", "*", a space, a letter and
\* the newline.
NL == "nl"

Chars == {"#", "*", " ", "a", NL}

Whitespace == {" ", NL}

\* The number of characters c at the start of t.
RECURSIVE RunLen(_, _)
RunLen(t, c) ==
    IF t # <<>> /\ Head(t) = c THEN 1 + RunLen(Tail(t), c) ELSE 0

Drop(t, n) == SubSeq(t, n + 1, Len(t))

\* `#+ .*` matches at the start of t: hashes, then a space.
HeadingAt(t) ==
    LET n == RunLen(t, "#") IN n >= 1 /\ Len(t) > n /\ t[n + 1] = " "

\* t from its first newline on: what `.*$` leaves of a line.
RECURSIVE RestOfLine(_)
RestOfLine(t) ==
    IF t = <<>> \/ Head(t) = NL THEN t ELSE RestOfLine(Tail(t))

\* re.sub(r"^#+ .*$", "", text, flags=re.MULTILINE); atStart: t begins a
\* line.
RECURSIVE SubHeadings(_, _)
SubHeadings(t, atStart) ==
    IF t = <<>> THEN <<>>
    ELSE IF atStart /\ HeadingAt(t) THEN SubHeadings(RestOfLine(t), FALSE)
    ELSE <<Head(t)>> \o SubHeadings(Tail(t), Head(t) = NL)

\* re.sub(r"\*\*", "", text)
RECURSIVE SubBold(_)
SubBold(t) ==
    IF t = <<>> THEN <<>>
    ELSE IF Len(t) >= 2 /\ t[1] = "*" /\ t[2] = "*" THEN SubBold(Drop(t, 2))
    ELSE <<Head(t)>> \o SubBold(Tail(t))

\* re.sub(r"\n{3,}", "\n\n", text)
RECURSIVE SubNewlines(_)
SubNewlines(t) ==
    IF t = <<>> THEN <<>>
    ELSE LET n == RunLen(t, NL) IN
         IF n >= 3 THEN <<NL, NL>> \o SubNewlines(Drop(t, n))
         ELSE IF n >= 1 THEN SubSeq(t, 1, n) \o SubNewlines(Drop(t, n))
         ELSE <<Head(t)>> \o SubNewlines(Tail(t))

\* str.strip()
RECURSIVE LStrip(_)
LStrip(t) ==
    IF t # <<>> /\ Head(t) \in Whitespace THEN LStrip(Tail(t)) ELSE t

RECURSIVE RStrip(_)
RStrip(t) ==
    IF t # <<>> /\ t[Len(t)] \in Whitespace
    THEN RStrip(SubSeq(t, 1, Len(t) - 1)) ELSE t

Strip(t) == RStrip(LStrip(t))

\* clean_story_text: the three substitutions in the order of the code,
\* then strip.
clean_story_text(t) ==
    Strip(SubNewlines(SubBold(SubHeadings(t, TRUE))))

\* Every script of at most MaxText characters.
RawTexts == UNION { [1..k -> Chars] : k \in 0..MaxText }

CleanInit ==
    /\ script = [s \in Stories |-> NoScript]
    /\ music = FALSE
    /\ apikey = FALSE
    /\ tools = FALSE
    /\ images = NoFiles
    /\ AtRest
    /\ ctext = <<>> /\ cout = <<>>
    /\ dur = NoDur
    /\ cleaning \in { [pc |-> "raw", raw |-> t] : t \in RawTexts }

CleanStory ==
    /\ cleaning.pc = "raw"
    /\ cleaning' = [pc |-> "done", raw |-> cleaning.raw,
                    out |-> clean_story_text(cleaning.raw)]
    /\ UNCHANGED <<script, music, apikey, tools, narrations, mixed, images,
                   videos, chunkfile, manifest, tempdir, run, mode, stories,
                   pc, idx, ok, fail, chunks, ci, attempt, chunk_files,
                   status, ops, calls, summary, opfailed, everfailed,
                   exitcode, reported, ctext, cout, dur>>

CleanNext == CleanStory

SpecClean == CleanInit /\ [][CleanNext]_vars

\* ------------------------------------------------------------------ claims

Artifact(st, s) ==
    CASE st = "narration" -> narrations[s]
      [] st = "mix" -> mixed[s]
      [] st = "thumbnail" -> images[s]
      [] OTHER -> videos[s]

InBatch(s) == \E k \in 1..Len(stories) : stories[k] = s

Final == {"Done", "Skipped", "Failed"}

Counted == {"narration", "mix", "video"}

FailedIn(st) == {s \in Stories : status[st][s] = "Failed"}

\* main has returned or exited.
RunOver == pc = "idle" /\ run > 0

\* The stages the command line asks for.
RanStage(st) ==
    \/ mode = "full"
    \/ mode = "step1" /\ st = "narration"
    \/ mode = "step2" /\ st = "mix"
    \/ mode = "step3" /\ st = "video"

\* C6: every chunk the chunker produces is at most max_chars characters
\* long, whatever the paragraphs of the cleaned text.
C6_ChunkBound ==
    \A i \in 1..Len(cout) : cout[i].len <= max_chars

\* The story the running loop is at.
AtStory(s) == idx \in 1..Len(stories) /\ stories[idx] = s

\* C1: a stage that reaches a story whose output artifact exists counts it
\* done (skipped, in ok where the stage counts) in that step, invokes no
\* operation and leaves the artifact as it is; no operation of a stage is
\* ever invoked for a story whose output artifact exists.
C1_IdempotentSkip ==
    [][ /\ \A st \in Stages, s \in Stories :
            (status[st][s] = "Pending" /\ status'[st][s] # "Pending"
                /\ Exists(Artifact(st, s)))
            => /\ status'[st][s] = "Skipped"
               /\ ops'.names = <<>>
               /\ Artifact(st, s)' = Artifact(st, s)
               /\ st \in Counted => (ok' = ok + 1 /\ fail' = fail)
        /\ ops'.names # <<>> => ~Exists(Artifact(ops'.stage, ops'.story))
      ]_vars

\* C1 witness: a second run that skipped every stage of a story.
C1_Witness ==
    /\ run = 2 /\ RunOver /\ mode = "full"
    /\ \E s \in Stories : \A st \in Stages : status[st][s] = "Skipped"

\* C2 as stated: in every stage, a run with one failed story still handles
\* every story of the batch and the stage's summary reports one failure.
C2_Original ==
    \A st \in Stages :
        (RunOver /\ exitcode = 0 /\ RanStage(st) /\ Cardinality(FailedIn(st)) = 1)
        => /\ \A s \in Stories : InBatch(s) => status[st][s] \in Final
           /\ summary[st].printed
           /\ summary[st].fail = 1

\* C2 amended: no error leaves a batch loop (a run ends by sys.exit only
\* for the missing API key); every stage that ran handled every story of
\* the batch; the summaries of Narration, Mix and Video report as many
\* failures as stories failed (one when one failed); Thumbnail prints none.
C2_FailureIsolation ==
    /\ (RunOver /\ exitcode # 0) => (~apikey /\ mode \in {"step1", "full"})
    /\ \A st \in Stages :
        (RunOver /\ exitcode = 0 /\ RanStage(st))
        => /\ \A s \in Stories : InBatch(s) => status[st][s] \in Final
           /\ st \in Counted =>
                /\ summary[st].printed
                /\ summary[st].fail = Cardinality(FailedIn(st))
           /\ st = "thumbnail" => ~summary[st].printed

\* C2 witness: a Mix stage over two stories in which the mix of one raised
\* and the other was made.
C2_Witness ==
    /\ RunOver /\ exitcode = 0 /\ mode = "step2" /\ opfailed
    /\ Len(stories) = 2
    /\ summary["mix"] = [printed |-> TRUE, ok |-> 1, fail |-> 1]
    /\ status["mix"][stories[1]] = "Failed"
    /\ status["mix"][stories[2]] = "Done"

\* C3: a step changes an artifact path only from absent to present, and
\* only for the story its loop is at.
C3_Immutable ==
    [][ \A st \in Stages, s \in Stories :
            Artifact(st, s)' # Artifact(st, s)
            => (~Exists(Artifact(st, s)) /\ AtStory(s)) ]_vars

\* C3 witness: a second full run added an image beside the narration the
\* first run left.
C3_Witness ==
    /\ run = 2 /\ RunOver /\ mode = "full"
    /\ \E s \in Stories :
        /\ narrations[s].kind = "tts" /\ narrations[s].run = 1
        /\ images[s].kind = "png" /\ images[s].run = 2
        /\ Exists(videos[s])

\* C4 as stated: an operation of Mix, Thumbnail or Video is invoked only
\* with the artifact of the stage before it (Narration, Mix, Thumbnail)
\* present.
C4_Original ==
    [][ ops'.names # <<>> =>
          /\ ops'.stage = "mix" => Exists(narrations[ops'.story])
          /\ ops'.stage = "thumbnail" => Exists(mixed[ops'.story])
          /\ ops'.stage = "video" => Exists(images[ops'.story])
      ]_vars

\* C4 amended: an operation of Mix is invoked only with the Narration
\* artifact present, one of Video only with the Image and the MixedAudio
\* artifacts present, speech synthesis only with the script present; the
\* image generation of Thumbnail depends on no earlier artifact.
C4_Ordering ==
    [][ ops'.names # <<>> =>
          /\ ops'.stage = "narration" => script[ops'.story] # NoScript
          /\ ops'.stage = "mix" => Exists(narrations[ops'.story])
          /\ ops'.stage = "video" =>
                (Exists(images[ops'.story]) /\ Exists(mixed[ops'.story]))
      ]_vars

\* C4 witness: the video tool ran for a story.
C4_Witness ==
    /\ ops.stage = "video" /\ ops.names = <<"probe", "ffmpeg">>
    /\ status["video"][ops.story] = "Done"

StageOrder == <<"narration", "mix", "thumbnail", "video">>

\* C5: in the full pipeline a stage has started for some story only when
\* every stage before it, in the order Narration, Mix, Thumbnail, Video,
\* has been attempted for every story of the batch.
C5_StageMajor ==
    mode = "full" =>
        \A a \in 1..4, b \in 1..4 :
            (a < b /\ \E s \in Stories : status[StageOrder[b]][s] # "Pending")
            => \A t \in Stories : InBatch(t) => status[StageOrder[a]][t] \in Final

\* C5 witness: the full pipeline at the second story of the Video stage.
C5_Witness ==
    /\ mode = "full" /\ pc = "step3" /\ idx = 2 /\ Len(stories) = 2
    /\ status["video"][stories[1]] # "Pending"

Range(f) == {f[k] : k \in 1..Len(f)}

\* C7, in every state: no chunk is submitted more than MaxAttempts times;
\* while a chunk is being synthesized its submissions so far all failed,
\* every chunk before it succeeded and no chunk after it was submitted.
C7_RetryState ==
    /\ \A i \in 1..Len(calls) : calls[i] <= MaxAttempts
    /\ pc = "synth" =>
        /\ calls[ci] = attempt /\ attempt < MaxAttempts
        /\ chunk_files = [k \in 1..(ci - 1) |-> k]
        /\ \A i \in 1..Len(calls) : i < ci => calls[i] >= 1
        /\ \A i \in 1..Len(calls) : i > ci => calls[i] = 0

\* C7, in every step of the synthesis loop: only the chunk at hand, which
\* has not succeeded, is submitted; a failed submission short of the
\* third is followed by another of the same chunk; the third failure
\* raises: the story is counted failed, its Narration artifact is absent
\* and no later chunk has been submitted.
C7_RetryStep ==
    pc = "synth" =>
        LET s == stories[idx] IN
        /\ \A i \in 1..Len(calls) :
              calls'[i] # calls[i]
              => (i = ci /\ calls'[i] = calls[i] + 1 /\ i \notin Range(chunk_files))
        /\ chunk_files' # chunk_files => chunk_files' = Append(chunk_files, ci)
        /\ (chunk_files' = chunk_files /\ calls'[ci] < MaxAttempts)
              => (pc' = "synth" /\ ci' = ci)
        /\ (chunk_files' = chunk_files /\ calls'[ci] = MaxAttempts)
              => /\ pc' = "step1" /\ idx' = idx + 1 /\ fail' = fail + 1
                 /\ status'["narration"][s] = "Failed"
                 /\ narrations'[s] = NoFile
                 /\ \A j \in 1..Len(calls) : j > ci => calls'[j] = 0

\* C7: the synthesis retry protocol.
C7_RetryProtocol == []C7_RetryState /\ [][C7_RetryStep]_vars

\* C7 witness: the first chunk succeeded at its second submission and the
\* second chunk failed three times.
C7_Witness ==
    /\ pc = "step1" /\ idx > 1
    /\ chunk_files = <<1>> /\ calls = <<2, 3>>
    /\ status["narration"][stories[idx - 1]] = "Failed"
    /\ narrations[stories[idx - 1]] = NoFile

\* generate_narration has just returned the artifact of story s.
JustNarrated(s) ==
    /\ pc = "step1" /\ idx \in 2..(Len(stories) + 1)
    /\ stories[idx - 1] = s
    /\ status["narration"][s] = "Done"

\* C8: when generate_narration returns the artifact, a story of one chunk
\* has its chunk file renamed to the artifact with no concatenation run; a
\* story of several chunks has them concatenated in chunk order; and no
\* chunk file or manifest of the story is left in temp/.
C8_RenameOrConcat ==
    \A s \in Stories : JustNarrated(s) =>
        LET n == Len(SplitChunks(script[s])) IN
        /\ chunk_files = [k \in 1..n |-> k]
        /\ IF n = 1
           THEN narrations[s] = TtsFile(s, 1) /\ ops.names = <<>>
           ELSE /\ narrations[s] =
                     [kind |-> "concat", parts |-> [k \in 1..n |-> TtsFile(s, k)]]
                /\ ops = Ops("narration", s, <<"concat">>)
        /\ \A i \in 1..ChunkSlots : chunkfile[s][i] = NoFile
        /\ manifest[s] = NoFile

\* C8 witness: a two-chunk story has just been narrated, its second chunk
\* at the second submission.
C8_Witness ==
    \E s \in Stories :
        /\ JustNarrated(s) /\ Len(SplitChunks(script[s])) = 2
        /\ calls = <<1, 2>>
        /\ narrations[s].kind = "concat"

\* C9, in every state: a full-pipeline run that returned and in which no
\* external operation raised leaves the four artifacts of every story of
\* its batch that has a script.
C9_Converged ==
    (RunOver /\ exitcode = 0 /\ mode = "full" /\ ~opfailed)
    => \A s \in Stories :
          (InBatch(s) /\ script[s] # NoScript)
          => \A st \in Stages : Exists(Artifact(st, s))

\* C9: resume convergence; operations are invoked only for (story, stage)
\* pairs whose artifact is absent.
C9_Resume ==
    /\ []C9_Converged
    /\ [][ops'.names # <<>> => ~Exists(Artifact(ops'.stage, ops'.story))]_vars

\* C9 witness: a second run, full and without a failure, completed a batch
\* of two stories that an earlier run had left incomplete with a failure.
C9_Witness ==
    /\ RunOver /\ exitcode = 0 /\ mode = "full" /\ ~opfailed /\ run = 2
    /\ everfailed
    /\ Len(stories) = 2
    /\ \A s \in Stories, st \in Stages : status[st][s] # "Failed"
    /\ \E s \in Stories : status["video"][s] = "Done"
    /\ \A s \in Stories, st \in Stages : Exists(Artifact(st, s))

\* C10: a (story, stage) that ended Failed has no file at its output path.
C10_CompletionSignal ==
    \A st \in Stages, s \in Stories :
        status[st][s] = "Failed" => ~Exists(Artifact(st, s))

\* C11: when the Mix stage reaches a story with no MixedAudio and no
\* Narration artifact, or the Video stage one with no Video artifact and
\* no Image or no MixedAudio artifact, that step invokes no operation,
\* changes no artifact, counts the story failed and moves to the next
\* story of the same loop.
C11_MissingInput ==
    [][ \A s \in Stories :
          ( /\ AtStory(s)
            /\ \/ pc = "step2" /\ ~Exists(mixed[s]) /\ ~Exists(narrations[s])
               \/ /\ pc = "step3" /\ ~Exists(videos[s])
                  /\ (~Exists(images[s]) \/ ~Exists(mixed[s])) )
          => /\ ops'.names = <<>>
             /\ artifacts' = artifacts
             /\ status'[IF pc = "step2" THEN "mix" ELSE "video"][s] = "Failed"
             /\ fail' = fail + 1 /\ ok' = ok
             /\ idx' = idx + 1 /\ pc' = pc
      ]_vars

\* C11 witness: a Mix stage over two stories found the first without its
\* narration, counted it failed and then mixed the second.
C11_Witness ==
    /\ RunOver /\ mode = "step2" /\ Len(stories) = 2 /\ ~opfailed
    /\ ~Exists(narrations[stories[1]]) /\ ~Exists(mixed[stories[1]])
    /\ status["mix"][stories[1]] = "Failed"
    /\ status["mix"][stories[2]] = "Done"
    /\ summary["mix"] = [printed |-> TRUE, ok |-> 1, fail |-> 1]

\* C12: in a run started without the API key or without ffmpeg and
\* ffprobe, no story is processed in any stage and the run ends aborted.
C12_FatalConfiguration ==
    (run > 0 /\ (~apikey \/ ~tools))
    => /\ \A st \in Stages, s \in Stories : status[st][s] = "Pending"
       /\ RunOver => exitcode # 0

\* A file that exists and holds at least one byte.
NonEmpty(f) == Exists(f) /\ f # EmptyFile

\* C13: an operation of Mix is invoked only on a Narration artifact that
\* exists and is not empty, one of Video only on an Image and a MixedAudio
\* artifact that exist and are not empty.
C13_ValidInput ==
    [][ ops'.names # <<>> =>
          /\ ops'.stage = "mix" => NonEmpty(narrations[ops'.story])
          /\ ops'.stage = "video" =>
                (NonEmpty(images[ops'.story]) /\ NonEmpty(mixed[ops'.story]))
      ]_vars

\* C14: when the Mix stage reaches a story with no MixedAudio artifact
\* whose Narration artifact exists and there is no background music, that
\* step makes the MixedAudio artifact equal to the Narration artifact,
\* invokes neither ffprobe nor ffmpeg, and counts the story ok.
C14_MixFallback ==
    [][ \A s \in Stories :
          ( /\ pc = "step2" /\ AtStory(s)
            /\ ~Exists(mixed[s]) /\ Exists(narrations[s]) /\ ~music )
          => /\ mixed'[s] = narrations[s]
             /\ narrations' = narrations
             /\ \A k \in 1..Len(ops'.names) :
                    ops'.names[k] \notin {"probe", "ffmpeg", "concat"}
             /\ status'["mix"][s] = "Done"
             /\ ok' = ok + 1 /\ fail' = fail
             /\ idx' = idx + 1 /\ pc' = pc
      ]_vars

\* C14 witness: with no background music, a Mix stage copied a narration
\* of two concatenated chunks and counted the story ok.
C14_Witness ==
    /\ ~music /\ pc = "step2" /\ idx > 1
    /\ ops = Ops("mix", stories[idx - 1], <<"copy">>)
    /\ narrations[stories[idx - 1]].kind = "concat"
    /\ mixed[stories[idx - 1]] = narrations[stories[idx - 1]]
    /\ status["mix"][stories[idx - 1]] = "Done" /\ ok >= 1

\* C15: the mixer's -t is the duration probed from the narration and the
\* composer's -t the duration probed from the mixed audio; the mixed audio
\* is never longer than the narration and the video never longer than the
\* mixed audio, whatever the length of the looped music.
C15_DurationLock ==
    /\ dur.pc \in {"video", "done"} =>
          /\ dur.music # 0 => dur.mixcap = dur.narration
          /\ dur.mixed # Unbounded /\ dur.mixed <= dur.narration
    /\ dur.pc = "done" =>
          /\ dur.videocap = dur.mixed
          /\ dur.video # Unbounded /\ dur.video <= dur.mixed
          /\ dur.video <= dur.narration

\* C15 witness: a video made over a narration longer than the music track
\* it was mixed with.
C15_Witness ==
    /\ dur.pc = "done"
    /\ dur.music # 0 /\ dur.music < dur.narration
    /\ dur.video = dur.narration

RECURSIVE Flatten(_)
Flatten(ss) == IF ss = <<>> THEN <<>> ELSE Head(ss) \o Flatten(Tail(ss))

IsContent(p) == p.body > 0

\* The paragraphs that hold text, each by the length of its text.
Bodies(ps) ==
    LET full == SelectSeq(ps, IsContent)
    IN  [k \in 1..Len(full) |-> full[k].body]

\* C16: the chunker puts every paragraph of the cleaned text whole into
\* exactly one chunk, in order, and the chunk strings joined in order hold
\* the paragraphs of the cleaned text that have text in them, each once
\* and in the order of the text (whitespace at the ends of a chunk is
\* stripped).
C16_ChunkOrder ==
    cout # <<>> =>
        /\ Flatten([i \in 1..Len(cout) |-> cout[i].paras]) = ctext
        /\ Bodies(Flatten([i \in 1..Len(cout) |-> StripParas(cout[i].paras)]))
              = Bodies(ctext)
        /\ \A i \in 1..Len(cout) :
              cout[i].len = TextLen(StripParas(cout[i].paras))

\* C16 witness: a text of three different paragraphs cut into two chunks,
\* two paragraphs in the first.
C16_Witness ==
    /\ Len(ctext) = 3 /\ Len(cout) = 2
    /\ ctext[1] # ctext[2] /\ ctext[2] # ctext[3] /\ ctext[1] # ctext[3]
    /\ cout[1].paras = <<ctext[1], ctext[2]>>
    /\ cout[2].paras = <<ctext[3]>>

\* C20: a script of 9000 characters is cut into exactly three chunks, each
\* of at most max_chars characters.
C20_LongScript ==
    (cout # <<>> /\ TextLen(ctext) = 9000)
    => /\ Len(cout) = 3
       /\ \A i \in 1..Len(cout) : cout[i].len <= max_chars

\* Nothing of story s is in temp/.
ScratchClean(s) ==
    /\ manifest[s] = NoFile
    /\ \A i \in 1..ChunkSlots : chunkfile[s][i] = NoFile

\* No file is in temp/.
ScratchEmpty == \A s \in Stories : ScratchClean(s)

\* C17 as stated: a story whose narration was made in this run has nothing
\* left in temp/, and whenever main is over temp/ is gone if it is empty.
C17_Original ==
    /\ \A s \in Stories : status["narration"][s] = "Done" => ScratchClean(s)
    /\ (RunOver /\ ScratchEmpty) => ~tempdir

\* C17 amended: a story whose narration was made in this run has nothing
\* left in temp/; when main returns after the stages it was asked for,
\* temp/ is there exactly if something is in it; a run aborted for the
\* missing API key, and --status, leave temp/ as main made it.
C17_ScratchCleanup ==
    /\ \A s \in Stories : status["narration"][s] = "Done" => ScratchClean(s)
    /\ (RunOver /\ exitcode = 0 /\ mode # "status") => (tempdir <=> ~ScratchEmpty)
    /\ (RunOver /\ (exitcode # 0 \/ mode = "status")) => tempdir

\* C17 witness: a full run that made a narration of two chunks, the second
\* at its second submission, has returned and temp/ is gone.
C17_Witness ==
    /\ RunOver /\ exitcode = 0 /\ mode = "full" /\ ~tempdir
    /\ calls = <<>>
    /\ \E s \in Stories :
          /\ status["narration"][s] = "Done"
          /\ narrations[s].kind = "concat"

\* The stories a stage of this run left in state v.
StoriesIn(st, v) == {s \in Stories : status[st][s] = v}

\* C18 as stated: every stage that ran printed a summary whose counts are
\* the stories it made, apart from the stories it skipped, and the stories
\* that failed.
C18_Original ==
    \A st \in Stages :
        (RunOver /\ exitcode = 0 /\ RanStage(st))
        => /\ summary[st].printed
           /\ summary[st].ok = Cardinality(StoriesIn(st, "Done"))
           /\ summary[st].fail = Cardinality(StoriesIn(st, "Failed"))

\* C18 amended: Narration, Mix and Video print a summary of two counts,
\* ok (the stories made and the stories skipped together) and failed
\* (every story that returned nothing or raised); Thumbnail prints none.
C18_StageSummary ==
    \A st \in Stages :
        (RunOver /\ exitcode = 0 /\ RanStage(st))
        => IF st \in Counted
           THEN /\ summary[st].printed
                /\ summary[st].ok = Cardinality(StoriesIn(st, "Done"))
                                      + Cardinality(StoriesIn(st, "Skipped"))
                /\ summary[st].fail = Cardinality(StoriesIn(st, "Failed"))
           ELSE summary[st] = NoSummary

\* C18 witness: a Narration stage that skipped its first story and failed
\* (speech synthesis raised) for its second.
C18_Witness ==
    /\ RunOver /\ exitcode = 0 /\ mode = "step1" /\ opfailed
    /\ Len(stories) = 2
    /\ status["narration"][stories[1]] = "Skipped"
    /\ status["narration"][stories[2]] = "Failed"
    /\ summary["narration"] = [printed |-> TRUE, ok |-> 1, fail |-> 1]

\* The table matches the files: a row for every script, each cell the
\* presence of the artifact.
TableIsCurrent ==
    /\ DOMAIN reported.rows = {s \in Stories : script[s] # NoScript}
    /\ \A s \in DOMAIN reported.rows :
          reported.rows[s] = [image |-> Exists(images[s]),
                              narration |-> Exists(narrations[s]),
                              mixed |-> Exists(mixed[s]),
                              video |-> Exists(videos[s])]

\* Every stage the command line asked for has handled every story.
ScopeFinished ==
    \A st \in Stages : RanStage(st) =>
        \A s \in Stories : InBatch(s) => status[st][s] \in Final

\* C19 as stated: a run of one stage or of the full pipeline that has
\* returned has printed the presence table, and the table is printed only
\* when every requested stage has handled every story.
C19_Original ==
    /\ (RunOver /\ exitcode = 0 /\ mode \in Modes)
          => (reported.emitted /\ TableIsCurrent)
    /\ (reported.emitted /\ mode \in Modes) => ScopeFinished

\* C19 amended: the presence table is printed at the end of the full
\* pipeline, after the Video stage has handled the last story, and by
\* --status; a run of one stage, and an aborted run, print no table.
C19_StatusReport ==
    /\ (RunOver /\ exitcode = 0 /\ mode \in {"full", "status"})
          => (reported.emitted /\ TableIsCurrent)
    /\ reported.emitted =>
          /\ RunOver /\ exitcode = 0 /\ mode \in {"full", "status"}
          /\ mode = "full" => ScopeFinished
    /\ run = 0 => ~reported.emitted

\* C19 witness: a full pipeline over two stories printed a table with the
\* video of one story present and that of the other absent.
C19_Witness ==
    /\ RunOver /\ mode = "full" /\ reported.emitted /\ Len(stories) = 2
    /\ reported.rows[stories[1]].video
    /\ ~reported.rows[stories[2]].video
    /\ reported.rows[stories[2]].narration

\* The counting stage whose loop main is in, "none" outside the loops.
LoopStage ==
    CASE pc \in {"step1", "synth", "join"} -> "narration"
      [] pc = "step2" -> "mix"
      [] pc = "step3" -> "video"
      [] OTHER -> "none"

\* The stories of the batch before position i that stage st left in a
\* state of vs.
Handled(st, i, vs) ==
    {k \in 1..(i - 1) : k <= Len(stories) /\ status[st][stories[k]] \in vs}

\* C22: inside the loop of Narration, Mix or Video, ok counts the stories
\* handled so far that were made or skipped and fail those that failed,
\* every story once; the summary printed when the loop ends has
\* ok + fail equal to the number of stories of the batch.
C22_CountAccounting ==
    /\ LoopStage # "none" =>
          /\ ok = Cardinality(Handled(LoopStage, idx, {"Done", "Skipped"}))
          /\ fail = Cardinality(Handled(LoopStage, idx, {"Failed"}))
          /\ ok + fail = idx - 1
    /\ \A st \in Counted :
          summary[st].printed => summary[st].ok + summary[st].fail = Len(stories)

\* C22 witness: a Video stage over two stories ended with one story
\* skipped, counted in ok, and one failed.
C22_Witness ==
    /\ summary["video"] = [printed |-> TRUE, ok |-> 1, fail |-> 1]
    /\ Len(stories) = 2
    /\ status["video"][stories[1]] = "Skipped"
    /\ status["video"][stories[2]] = "Failed"

\* C24: when the Mix loop reaches a story whose MixedAudio exists, or the
\* Video loop one whose Video exists, that step counts the story ok,
\* invokes nothing and changes no artifact, whether or not the input
\* artifact is there; a MixedAudio or Video artifact that exists is never
\* changed, also after its narration was removed and made again.
C24_SkipFirst ==
    [][ \A s \in Stories :
          /\ (pc = "step2" /\ AtStory(s) /\ Exists(mixed[s]))
                => /\ status'["mix"][s] = "Skipped"
                   /\ ok' = ok + 1 /\ fail' = fail /\ idx' = idx + 1
                   /\ ops'.names = <<>> /\ artifacts' = artifacts
          /\ (pc = "step3" /\ AtStory(s) /\ Exists(videos[s]))
                => /\ status'["video"][s] = "Skipped"
                   /\ ok' = ok + 1 /\ fail' = fail /\ idx' = idx + 1
                   /\ ops'.names = <<>> /\ artifacts' = artifacts
          /\ Exists(mixed[s]) => mixed'[s] = mixed[s]
          /\ Exists(videos[s]) => videos'[s] = videos[s]
      ]_vars

\* C24 witness: a full run made the narration of a story again after it
\* was removed, and skipped the story in Mix and in Video: the mixed audio
\* is still the mix of the first narration.
C24_Witness ==
    /\ RunOver /\ mode = "full" /\ run = 2
    /\ \E s \in Stories :
          /\ status["narration"][s] = "Done"
          /\ status["mix"][s] = "Skipped" /\ status["video"][s] = "Skipped"
          /\ mixed[s].kind = "mix" /\ mixed[s].narration # narrations[s]
          /\ videos[s].kind = "mp4" /\ videos[s].audio = mixed[s]

\* The audio of chunk i of story s synthesized in the current run.
Fresh(s, i) == [kind |-> "tts", story |-> s, idx |-> i, run |-> run]

\* C23, in every state: the chunk files generate_narration has collected
\* are those of its chunks so far, in order, each synthesized in this
\* invocation; when they are joined every chunk has been submitted; the
\* artifact returned is the one file, or the concatenation of one file
\* per chunk in order, all synthesized in this invocation.
C23_FreshState ==
    /\ pc \in {"synth", "join"} =>
          /\ \A k \in 1..Len(chunk_files) :
                /\ chunk_files[k] = k
                /\ chunkfile[stories[idx]][k] = Fresh(stories[idx], k)
          /\ pc = "join" =>
                /\ Len(chunk_files) = Len(chunks)
                /\ \A i \in 1..Len(calls) : calls[i] >= 1
    /\ \A s \in Stories : JustNarrated(s) =>
          LET n == Len(SplitChunks(script[s])) IN
          /\ \A i \in 1..Len(calls) : calls[i] >= 1
          /\ narrations[s] =
                IF n = 1 THEN Fresh(s, 1)
                ELSE [kind |-> "concat", parts |-> [k \in 1..n |-> Fresh(s, k)]]

\* C23, in every step: generate_narration starts at the first chunk with
\* no chunk file collected, whatever is in temp/.
C23_FreshStart ==
    (pc = "step1" /\ pc' = "synth")
    => /\ ci' = 1 /\ chunk_files' = <<>>
       /\ \A i \in 1..Len(calls') : calls'[i] = 0

\* C23: no chunk file of an earlier invocation is reused.
C23_NoStaleScratch == []C23_FreshState /\ [][C23_FreshStart]_vars

\* C23 witness: a second run has synthesized both chunks of a story again
\* and is about to join them; the manifest of the first run, whose
\* concatenation failed, is still in temp/.
C23_Witness ==
    /\ pc = "join" /\ run = 2 /\ calls = <<1, 1>>
    /\ manifest[stories[idx]].kind = "list"
    /\ chunkfile[stories[idx]][1].run = 2
    /\ chunkfile[stories[idx]][2].run = 2

\* A line of t is a heading: hashes and a space at the start of the text
\* or after a newline.
HasHeadingLine(t) ==
    \E i \in 1..Len(t) :
        (i = 1 \/ t[i - 1] = NL) /\ HeadingAt(SubSeq(t, i, Len(t)))

HasBoldMarker(t) == \E i \in 1..(Len(t) - 1) : t[i] = "*" /\ t[i + 1] = "*"

HasBlankRun(t) ==
    \E i \in 1..(Len(t) - 2) : t[i] = NL /\ t[i + 1] = NL /\ t[i + 2] = NL

\* C21: the text clean_story_text returns has no heading line, no "**"
\* and no run of three or more newlines, whatever the script.
C21_TextCleaning ==
    cleaning.pc = "done" =>
        /\ ~HasHeadingLine(cleaning.out)
        /\ ~HasBoldMarker(cleaning.out)
        /\ ~HasBlankRun(cleaning.out)

====
